---- MODULE Spec2Model ----
(***************************************************************************)
(* Model of psm_utils.peptidoform.Peptidoform: a parsed ProForma sequence  *)
(* with its properties record, the composition / mass resolver, and the    *)
(* three mutators rename_modifications, add_fixed_modifications and        *)
(* apply_fixed_modifications.                                              *)
(*                                                                         *)
(* Python values are encoded as follows.                                   *)
(*   - An optional value is a sequence of length 0 or 1: None is <<>> and  *)
(*     a present value x is <<x>>.  An optional list is therefore <<>> for *)
(*     None, << <<>> >> for [] and << <<t1, t2>> >> for [t1, t2].          *)
(*   - A modification tag is identified by the label it was built from;   *)
(*     proforma.process_tag_tokens(label) is the tag of that label (the    *)
(*     labels of the model carry no ProForma prefix).  The attribute       *)
(*     "value" of a tag is TagValue: the name for a named modification,    *)
(*     the float for a mass delta.                                         *)
(*   - A ModificationRule is a record [modification_tag, targets]; it has  *)
(*     no attribute "value".  targets is the list of residues handed to    *)
(*     add_fixed_modifications, repetitions included.                      *)
(*   - A Composition is a function from Elements to integers, a mass is an *)
(*     integer (nominal masses), and a quotient is a record [num, den].    *)
(***************************************************************************)
EXTENDS Integers, Sequences, FiniteSets, TLC

VARIABLES pc, parsed_sequence, properties, lastop, raised, prev, ret, hist

vars == <<pc, parsed_sequence, properties, lastop, raised, prev, ret, hist>>

-----------------------------------------------------------------------------
(* Bounds of the model. *)

MaxLen == 2
MaxTags == 2
MaxAdds == 2
MaxRulesPerCall == 1
MaxMapKeys == 2
MaxTagsMz == 1
MaxRenames == 1
MaxAddsResolve == 1
MaxTargets == 2

-----------------------------------------------------------------------------
(* Optional values and Python truthiness. *)

None == <<>>

Some(x) == <<x>>

IsNone(o) == o = <<>>

\* bool(o) for o an optional list: None and [] are falsy.
Truthy(o) == o # <<>> /\ o[1] # <<>>

\* The list held by an optional list, None read as the empty list.
ListOf(o) == IF o = <<>> THEN <<>> ELSE o[1]

\* The elements of a list.
Range(q) == {q[i] : i \in 1..Len(q)}

-----------------------------------------------------------------------------
(* Lookup tables of the collaborators (pyteomics.mass, pyteomics.proforma). *)

Elements == {"C", "H", "N", "O", "S"}

Residues == {"C", "K", "X"}

\* Keys of mass.std_aa_comp / mass.std_aa_mass among the residues of the model.
StdResidues == {"C", "K"}

TargetResidues == {"C", "K"}

Labels == {"Oxidation", "+15.995", "unk"}

\* A Python dict keyed by residue: its key set and its values (get is read
\* only at keys).
EmptyDict(default) == [keys |-> {}, get |-> [aa \in Residues |-> default]]

\* d[k] = v for every k of ks.
DictSetAll(d, ks, v) ==
    [keys |-> d.keys \cup ks, get |-> [aa \in DOMAIN d.get |-> IF aa \in ks THEN v ELSE d.get[aa]]]

Comp(c, h, n, o, s) == [e \in Elements |->
    CASE e = "C" -> c [] e = "H" -> h [] e = "N" -> n [] e = "O" -> o [] OTHER -> s]

EmptyComposition == Comp(0, 0, 0, 0, 0)

AddComp(a, b) == [e \in Elements |-> a[e] + b[e]]

std_aa_comp(aa) == IF aa = "C" THEN Comp(3, 5, 1, 1, 1) ELSE Comp(6, 12, 2, 1, 0)

std_aa_mass(aa) == IF aa = "C" THEN 103 ELSE 128

\* Outcome of reading tag.composition: a named modification resolves, a mass
\* delta has no such attribute, an unknown name fails the lookup.
TagCompositionStatus(tag) ==
    CASE tag = "Oxidation" -> "ok"
      [] tag = "+15.995" -> "AttributeError"
      [] OTHER -> "KeyError"

\* Outcome of reading tag.mass.
TagMassStatus(tag) ==
    CASE tag = "Oxidation" -> "ok"
      [] tag = "+15.995" -> "ok"
      [] OTHER -> "KeyError"

TagComposition(tag) == Comp(0, 0, 0, 1, 0)

TagMass(tag) == 16

NTermComposition == Comp(0, 1, 0, 0, 0)

CTermComposition == Comp(0, 1, 0, 1, 0)

NTermMass == 1

CTermMass == 17

ProtonMass == 1

process_tag_tokens(label) == label

\* tag.value: the name (a str) of a named modification, the float of a mass delta.
TagValue(tag) ==
    IF tag = "+15.995" THEN [type |-> "float", repr |-> "15.995"]
    ELSE [type |-> "str", repr |-> tag]

ModificationRule(tag, targets) == [modification_tag |-> tag, targets |-> targets]

-----------------------------------------------------------------------------
(* Results of the accessors: a value, or the exception raised and the point *)
(* of the traversal that raised it.                                         *)

Ok(v) == [ok |-> TRUE, val |-> v, err |-> "none", stage |-> "none", pos |-> 0, idx |-> 0]

Fail(e, stage, p, i) ==
    [ok |-> FALSE, val |-> <<>>, err |-> e, stage |-> stage, pos |-> p, idx |-> i]

-----------------------------------------------------------------------------
(* sequential_composition *)

\* fixed_rules[aa] = rule.modification_tag.composition for each rule, each target
\* (not guarded by try/except: the tag's own error escapes).
RECURSIVE FixedRulesComposition(_, _, _)
FixedRulesComposition(rules, i, d) ==
    IF i > Len(rules) THEN Ok(d)
    ELSE LET rule == rules[i] IN
         IF rule.targets = <<>> THEN FixedRulesComposition(rules, i + 1, d)
         ELSE IF TagCompositionStatus(rule.modification_tag) # "ok"
              THEN Fail(TagCompositionStatus(rule.modification_tag), "fixed", 0, i)
              ELSE FixedRulesComposition(rules, i + 1,
                     DictSetAll(d, Range(rule.targets), TagComposition(rule.modification_tag)))

\* comp += tag.composition for each tag, ModificationException on the first
\* tag whose composition cannot be read.
RECURSIVE AddTagCompositions(_, _, _, _, _)
AddTagCompositions(acc, tags, i, stage, p) ==
    IF i > Len(tags) THEN Ok(acc)
    ELSE IF TagCompositionStatus(tags[i]) # "ok"
         THEN Fail("ModificationException", stage, p, i)
         ELSE AddTagCompositions(AddComp(acc, TagComposition(tags[i])), tags, i + 1, stage, p)

PositionComposition(entry, p, fixed_rules) ==
    IF entry.aa \notin StdResidues THEN Fail("AmbiguousResidueException", "residue", p, 0)
    ELSE LET base == std_aa_comp(entry.aa)
             withFixed == IF entry.aa \in fixed_rules.keys
                          THEN AddComp(base, fixed_rules.get[entry.aa]) ELSE base
         IN IF Truthy(entry.tags)
            THEN AddTagCompositions(withFixed, entry.tags[1], 1, "position", p)
            ELSE Ok(withFixed)

RECURSIVE SequenceCompositions(_, _, _, _)
SequenceCompositions(ps, p, fixed_rules, comp_list) ==
    IF p > Len(ps) THEN Ok(comp_list)
    ELSE LET r == PositionComposition(ps[p], p, fixed_rules) IN
         IF ~r.ok THEN r
         ELSE SequenceCompositions(ps, p + 1, fixed_rules, Append(comp_list, r.val))

sequential_composition(ps, pr) ==
    IF IsNone(pr.fixed_modifications) THEN Fail("TypeError", "fixed", 0, 0)
    ELSE LET fr == FixedRulesComposition(pr.fixed_modifications[1], 1,
                                         EmptyDict(Comp(0, 0, 0, 0, 0))) IN
         IF ~fr.ok THEN fr
         ELSE LET nt == IF Truthy(pr.n_term)
                        THEN AddTagCompositions(NTermComposition, pr.n_term[1], 1, "n_term", 0)
                        ELSE Ok(NTermComposition) IN
              IF ~nt.ok THEN nt
              ELSE LET sq == SequenceCompositions(ps, 1, fr.val, <<nt.val>>) IN
                   IF ~sq.ok THEN sq
                   ELSE LET ct == IF Truthy(pr.c_term)
                                  THEN AddTagCompositions(CTermComposition, pr.c_term[1], 1,
                                                          "c_term", 0)
                                  ELSE Ok(CTermComposition) IN
                        IF ~ct.ok THEN ct ELSE Ok(Append(sq.val, ct.val))

RECURSIVE SumCompositions(_, _, _)
SumCompositions(comp, comp_list, i) ==
    IF i > Len(comp_list) THEN comp
    ELSE SumCompositions(AddComp(comp, comp_list[i]), comp_list, i + 1)

composition(ps, pr) ==
    LET sc == sequential_composition(ps, pr) IN
    IF ~sc.ok THEN sc
    ELSE LET lab == AddTagCompositions(SumCompositions(EmptyComposition, sc.val, 1),
                                       pr.labile_modifications, 1, "labile", 0) IN
         IF ~lab.ok THEN lab
         ELSE AddTagCompositions(lab.val, pr.unlocalized_modifications, 1, "unlocalized", 0)

-----------------------------------------------------------------------------
(* sequential_theoretical_mass: the parallel code path over scalar masses. *)

RECURSIVE FixedRulesMass(_, _, _)
FixedRulesMass(rules, i, d) ==
    IF i > Len(rules) THEN Ok(d)
    ELSE LET rule == rules[i] IN
         IF rule.targets = <<>> THEN FixedRulesMass(rules, i + 1, d)
         ELSE IF TagMassStatus(rule.modification_tag) # "ok"
              THEN Fail(TagMassStatus(rule.modification_tag), "fixed", 0, i)
              ELSE FixedRulesMass(rules, i + 1,
                     DictSetAll(d, Range(rule.targets), TagMass(rule.modification_tag)))

RECURSIVE AddTagMasses(_, _, _, _, _)
AddTagMasses(acc, tags, i, stage, p) ==
    IF i > Len(tags) THEN Ok(acc)
    ELSE IF TagMassStatus(tags[i]) # "ok"
         THEN Fail("ModificationException", stage, p, i)
         ELSE AddTagMasses(acc + TagMass(tags[i]), tags, i + 1, stage, p)

\* Mutant of PositionMass: the local tags are read before the residue is looked up.
PositionMass_tags_first(entry, p, fixed_rules) ==
    LET tg == IF Truthy(entry.tags)
              THEN AddTagMasses(0, entry.tags[1], 1, "position", p) ELSE Ok(0)
    IN IF ~tg.ok THEN tg
       ELSE IF entry.aa \notin StdResidues
            THEN Fail("AmbiguousResidueException", "residue", p, 0)
            ELSE Ok(std_aa_mass(entry.aa) + tg.val
                    + IF entry.aa \in fixed_rules.keys THEN fixed_rules.get[entry.aa] ELSE 0)

PositionMass(entry, p, fixed_rules) ==
    IF entry.aa \notin StdResidues THEN Fail("AmbiguousResidueException", "residue", p, 0)
    ELSE LET base == std_aa_mass(entry.aa)
             withFixed == IF entry.aa \in fixed_rules.keys
                          THEN base + fixed_rules.get[entry.aa] ELSE base
         IN IF Truthy(entry.tags)
            THEN AddTagMasses(withFixed, entry.tags[1], 1, "position", p)
            ELSE Ok(withFixed)

RECURSIVE SequenceMasses(_, _, _, _)
SequenceMasses(ps, p, fixed_rules, mass_list) ==
    IF p > Len(ps) THEN Ok(mass_list)
    ELSE LET r == PositionMass(ps[p], p, fixed_rules) IN
         IF ~r.ok THEN r
         ELSE SequenceMasses(ps, p + 1, fixed_rules, Append(mass_list, r.val))

sequential_theoretical_mass(ps, pr) ==
    IF IsNone(pr.fixed_modifications) THEN Fail("TypeError", "fixed", 0, 0)
    ELSE LET fr == FixedRulesMass(pr.fixed_modifications[1], 1, EmptyDict(0)) IN
         IF ~fr.ok THEN fr
         ELSE LET nt == IF Truthy(pr.n_term)
                        THEN AddTagMasses(NTermMass, pr.n_term[1], 1, "n_term", 0)
                        ELSE Ok(NTermMass) IN
              IF ~nt.ok THEN nt
              ELSE LET sq == SequenceMasses(ps, 1, fr.val, <<nt.val>>) IN
                   IF ~sq.ok THEN sq
                   ELSE LET ct == IF Truthy(pr.c_term)
                                  THEN AddTagMasses(CTermMass, pr.c_term[1], 1, "c_term", 0)
                                  ELSE Ok(CTermMass) IN
                        IF ~ct.ok THEN ct ELSE Ok(Append(sq.val, ct.val))

RECURSIVE SumMasses(_, _, _)
SumMasses(m, mass_list, i) ==
    IF i > Len(mass_list) THEN m ELSE SumMasses(m + mass_list[i], mass_list, i + 1)

theoretical_mass(ps, pr) ==
    LET sm == sequential_theoretical_mass(ps, pr) IN
    IF ~sm.ok THEN sm
    ELSE LET lab == AddTagMasses(SumMasses(0, sm.val, 1),
                                 pr.labile_modifications, 1, "labile", 0) IN
         IF ~lab.ok THEN lab
         ELSE AddTagMasses(lab.val, pr.unlocalized_modifications, 1, "unlocalized", 0)

\* properties["charge_state"].charge, or None when there is no charge state.
precursor_charge(pr) == pr.charge_state

\* Mutant of theoretical_mz: only a missing charge state yields None, so a charge
\* of zero reaches the division.
theoretical_mz_none_only(ps, pr) ==
    LET z == precursor_charge(pr) IN
    IF IsNone(z) THEN Ok(None)
    ELSE LET m == theoretical_mass(ps, pr) IN
         IF ~m.ok THEN m
         ELSE IF z[1] = 0 THEN Fail("ZeroDivisionError", "mz", 0, 0)
              ELSE Ok(Some([num |-> m.val + ProtonMass * z[1], den |-> z[1]]))

\* None when precursor_charge is falsy (None or 0); theoretical_mass is read only
\* otherwise, and its exception escapes.
theoretical_mz(ps, pr) ==
    LET z == precursor_charge(pr) IN
    IF IsNone(z) \/ z = Some(0) THEN Ok(None)
    ELSE LET m == theoretical_mass(ps, pr) IN
         IF ~m.ok THEN m
         ELSE Ok(Some([num |-> m.val + ProtonMass * z[1], den |-> z[1]]))

-----------------------------------------------------------------------------
(* The mutators. *)

\* _rename_modification_list: one pass over the old tags.  The keys of mapping are
\* labels (str): the float value of a mass delta is never one of them.
rename_modification_list(mods, mapping) ==
    [i \in 1..Len(mods) |->
        LET value == TagValue(mods[i]) IN
        IF value.type = "str" /\ value.repr \in mapping.keys
        THEN process_tag_tokens(mapping.to[value.repr])
        ELSE mods[i]]

\* The sequence is rewritten first, then n_term, c_term, unlocalized and labile
\* modifications; fixed_modifications comes last, and a non-empty rule list makes
\* _rename_modification_list read rule.value, which a ModificationRule lacks.
rename_modifications(ps, pr, mapping) ==
    LET RenameOpt(o) == IF Truthy(o) THEN Some(rename_modification_list(o[1], mapping)) ELSE o
        RenameList(l) == IF l # <<>> THEN rename_modification_list(l, mapping) ELSE l
    IN [parsed_sequence |->
            [i \in 1..Len(ps) |-> [aa |-> ps[i].aa, tags |-> RenameOpt(ps[i].tags)]],
        properties |->
            [pr EXCEPT !.n_term = RenameOpt(@),
                       !.c_term = RenameOpt(@),
                       !.unlocalized_modifications = RenameList(@),
                       !.labile_modifications = RenameList(@)],
        raised |-> IF Truthy(pr.fixed_modifications) THEN "AttributeError" ELSE "none"]

add_fixed_modifications(pr, modification_rules) ==
    LET rules == [i \in 1..Len(modification_rules) |->
                    ModificationRule(process_tag_tokens(modification_rules[i].mod),
                                     modification_rules[i].targets)]
    IN [pr EXCEPT !.fixed_modifications =
            IF Truthy(@) THEN Some(@[1] \o rules) ELSE Some(rules)]

\* One rule of rule_dict: the rule's tag is appended to the residue's list once
\* for every element of rule.targets.
RECURSIVE rule_dict_rule(_, _, _)
rule_dict_rule(rule, j, d) ==
    IF j > Len(rule.targets) THEN d
    ELSE rule_dict_rule(rule, j + 1,
            [keys |-> d.keys \cup {rule.targets[j]},
             get |-> [d.get EXCEPT ![rule.targets[j]] = Append(@, rule.modification_tag)]])

\* rule_dict: target_aa -> the tags of the rules naming it, appended in rule order.
RECURSIVE rule_dict(_, _, _)
rule_dict(rules, i, d) ==
    IF i > Len(rules) THEN d
    ELSE rule_dict(rules, i + 1, rule_dict_rule(rules[i], 1, d))

\* Mutant of apply_fixed_modifications: a position that has local tags is skipped.
apply_fixed_skip_modified(ps, pr) ==
    IF Truthy(pr.fixed_modifications)
    THEN LET rd == rule_dict(pr.fixed_modifications[1], 1, EmptyDict(<<>>)) IN
         [parsed_sequence |->
            [i \in 1..Len(ps) |->
                IF ps[i].aa \in rd.keys /\ ~Truthy(ps[i].tags)
                THEN [aa |-> ps[i].aa, tags |-> Some(rd.get[ps[i].aa])]
                ELSE ps[i]],
          properties |-> [pr EXCEPT !.fixed_modifications = None]]
    ELSE [parsed_sequence |-> ps, properties |-> pr]

apply_fixed_modifications(ps, pr) ==
    IF Truthy(pr.fixed_modifications)
    THEN LET rd == rule_dict(pr.fixed_modifications[1], 1, EmptyDict(<<>>)) IN
         [parsed_sequence |->
            [i \in 1..Len(ps) |->
                IF ps[i].aa \in rd.keys
                THEN IF Truthy(ps[i].tags)
                     THEN [aa |-> ps[i].aa, tags |-> Some(ps[i].tags[1] \o rd.get[ps[i].aa])]
                     ELSE [aa |-> ps[i].aa, tags |-> Some(rd.get[ps[i].aa])]
                ELSE ps[i]],
          properties |-> [pr EXCEPT !.fixed_modifications = None]]
    ELSE [parsed_sequence |-> ps, properties |-> pr]

-----------------------------------------------------------------------------
(* Construction.  proforma.parse is a collaborator: a text is given by what *)
(* it parses to.  Fixed rules enter through add_fixed_modifications, which  *)
(* leaves the record as parse leaves it for a text that states the rules.   *)

TagListsUpTo(n) == UNION {[1..k -> Labels] : k \in 0..n}

\* Tags of one position or terminus as parse yields them: None, or one tag.
OptTagLists == {None} \cup {Some(<<l>>) : l \in Labels}

PosEntries == [aa : Residues, tags : OptTagLists]

\* Parsed sequences of one to MaxLen residues.
Sequences == UNION {[1..k -> PosEntries] : k \in 1..MaxLen}

Charges == {None, Some(-1), Some(0), Some(2)}

IsotopeOpts == {<<>>, <<"13C">>}

RECURSIVE SeqTagCount(_, _)
SeqTagCount(ps, i) ==
    IF i > Len(ps) THEN 0 ELSE Len(ListOf(ps[i].tags)) + SeqTagCount(ps, i + 1)

TagCount(t) ==
    SeqTagCount(t.seq, 1) + Len(ListOf(t.n_term)) + Len(ListOf(t.c_term))
        + Len(t.unlocalized) + Len(t.labile)

parse(t) ==
    [parsed_sequence |-> t.seq,
     properties |-> [n_term |-> t.n_term,
                     c_term |-> t.c_term,
                     unlocalized_modifications |-> t.unlocalized,
                     labile_modifications |-> t.labile,
                     fixed_modifications |-> Some(<<>>),
                     charge_state |-> t.charge,
                     isotopes |-> t.isotopes]]

\* Mutant of Peptidoform: isotopes are not refused.
Peptidoform_unchecked(proforma_sequence) ==
    LET p == parse(proforma_sequence) IN
    [parsed_sequence |-> p.parsed_sequence, properties |-> p.properties, raised |-> "none"]

\* __init__: the parse result is stored, then isotopes are refused.
Peptidoform(proforma_sequence) ==
    LET p == parse(proforma_sequence) IN
    [parsed_sequence |-> p.parsed_sequence,
     properties |-> p.properties,
     raised |-> IF p.properties.isotopes # <<>> THEN "NotImplementedError" ELSE "none"]

\* The class each exception class derives from.
ExceptionBase(e) ==
    CASE e = "AmbiguousResidueException" -> "PeptidoformException"
      [] e = "ModificationException" -> "PeptidoformException"
      [] e = "PeptidoformException" -> "PSMUtilsException"
      [] e = "NotImplementedError" -> "RuntimeError"
      [] e = "KeyError" -> "LookupError"
      [] e = "ZeroDivisionError" -> "ArithmeticError"
      [] OTHER -> "Exception"

IsPeptidoformException(e) ==
    e = "PeptidoformException" \/ ExceptionBase(e) = "PeptidoformException"

\* Texts with modifications on the sequence only.
LifecycleTexts ==
    {[seq |-> s, n_term |-> None, c_term |-> None, unlocalized |-> <<>>, labile |-> <<>>,
      charge |-> None, isotopes |-> iso] :
        s \in {q \in Sequences : SeqTagCount(q, 1) <= MaxTags}, iso \in IsotopeOpts}

\* Texts with modifications in every category.
ResolverTexts ==
    {t \in [seq : Sequences, n_term : OptTagLists, c_term : OptTagLists,
            unlocalized : TagListsUpTo(MaxTags), labile : TagListsUpTo(MaxTags),
            charge : {None}, isotopes : IsotopeOpts] : TagCount(t) <= MaxTags}

\* Target lists of up to MaxTargets residues, repetitions included.
TargetLists == UNION {[1..k -> TargetResidues] : k \in 0..MaxTargets}

RuleLists ==
    UNION {[1..k -> [mod : Labels, targets : TargetLists]] : k \in 0..MaxRulesPerCall}

\* A mapping old label -> new label: its keys, and the label each key maps to
\* (to is read only at keys, and is the identity elsewhere).
Mappings ==
    UNION {{[keys |-> ks, to |-> [l \in Labels |-> IF l \in ks THEN f[l] ELSE l]] :
                f \in [ks -> Labels]} :
           ks \in {x \in SUBSET Labels : Cardinality(x) <= MaxMapKeys}}

\* Texts with at most MaxTagsMz tags and any charge annotation.
MzTexts ==
    {t \in [seq : Sequences, n_term : OptTagLists, c_term : OptTagLists,
            unlocalized : TagListsUpTo(MaxTagsMz), labile : TagListsUpTo(MaxTagsMz),
            charge : Charges, isotopes : IsotopeOpts] : TagCount(t) <= MaxTagsMz}

Accessors ==
    {"sequential_composition", "composition", "sequential_theoretical_mass",
     "theoretical_mass", "theoretical_mz", "precursor_charge"}

CallAccessor(op, ps, pr) ==
    CASE op = "sequential_composition" -> sequential_composition(ps, pr)
      [] op = "composition" -> composition(ps, pr)
      [] op = "sequential_theoretical_mass" -> sequential_theoretical_mass(ps, pr)
      [] op = "theoretical_mass" -> theoretical_mass(ps, pr)
      [] op = "theoretical_mz" -> theoretical_mz(ps, pr)
      [] OTHER -> Ok(precursor_charge(pr))

-----------------------------------------------------------------------------
(* State machine.  prev is the object as it was before the last mutator     *)
(* call, ret the last accessor call and its outcome; hist records the       *)
(* sequence as constructed, the rules handed to add_fixed_modifications so  *)
(* far, how many of them had been handed over at the last                   *)
(* apply_fixed_modifications call, and the calls made.                      *)

NoProperties ==
    [n_term |-> None, c_term |-> None, unlocalized_modifications |-> <<>>,
     labile_modifications |-> <<>>, fixed_modifications |-> None,
     charge_state |-> None, isotopes |-> <<>>]

NoRet == [op |-> "none", res |-> Ok(<<>>)]

\* The object before a mutator call, with the call's argument.
Snapshot(arg) ==
    [parsed_sequence |-> parsed_sequence, properties |-> properties, lastop |-> lastop,
     arg |-> arg]

Init ==
    /\ pc = "new"
    /\ parsed_sequence = <<>>
    /\ properties = NoProperties
    /\ lastop = "none"
    /\ raised = "none"
    /\ prev = [parsed_sequence |-> <<>>, properties |-> NoProperties, lastop |-> "none",
               arg |-> <<>>]
    /\ ret = NoRet
    /\ hist = [orig |-> <<>>, added |-> <<>>, applied |-> 0, adds |-> 0, renames |-> 0]

Construct(texts) ==
    /\ pc = "new"
    /\ \E t \in texts :
         LET obj == Peptidoform(t) IN
         /\ parsed_sequence' = obj.parsed_sequence
         /\ properties' = obj.properties
         /\ raised' = obj.raised
         /\ pc' = IF obj.raised = "none" THEN "ready" ELSE "failed"
         /\ hist' = [hist EXCEPT !.orig = obj.parsed_sequence]
    /\ lastop' = "init"
    /\ UNCHANGED <<prev, ret>>

AddFixed(maxAdds) ==
    /\ pc = "ready"
    /\ hist.adds < maxAdds
    /\ \E rules \in RuleLists :
         /\ properties' = add_fixed_modifications(properties, rules)
         /\ hist' = [hist EXCEPT !.added = @ \o [i \in 1..Len(rules) |->
                                    ModificationRule(rules[i].mod, rules[i].targets)],
                                 !.adds = @ + 1]
         /\ prev' = Snapshot(<<rules>>)
    /\ lastop' = "add"
    /\ raised' = "none"
    /\ ret' = NoRet
    /\ UNCHANGED <<pc, parsed_sequence>>

ApplyFixed ==
    /\ pc = "ready"
    /\ LET r == apply_fixed_modifications(parsed_sequence, properties) IN
         /\ parsed_sequence' = r.parsed_sequence
         /\ properties' = r.properties
    /\ hist' = [hist EXCEPT !.applied = Len(hist.added)]
    /\ prev' = Snapshot(<<>>)
    /\ lastop' = "apply"
    /\ raised' = "none"
    /\ ret' = NoRet
    /\ UNCHANGED pc

Rename ==
    /\ pc = "ready"
    /\ hist.renames < MaxRenames
    /\ \E mapping \in Mappings :
         LET r == rename_modifications(parsed_sequence, properties, mapping) IN
         /\ parsed_sequence' = r.parsed_sequence
         /\ properties' = r.properties
         /\ raised' = r.raised
         /\ prev' = Snapshot(<<mapping>>)
    /\ hist' = [hist EXCEPT !.renames = @ + 1]
    /\ lastop' = "rename"
    /\ ret' = NoRet
    /\ UNCHANGED pc

Call(ops) ==
    /\ pc = "ready"
    /\ \E op \in ops :
         ret' = [op |-> op, res |-> CallAccessor(op, parsed_sequence, properties)]
    /\ UNCHANGED <<pc, parsed_sequence, properties, lastop, raised, prev, hist>>

Next == Construct(LifecycleTexts) \/ AddFixed(MaxAdds) \/ ApplyFixed

Spec == Init /\ [][Next]_vars

ResolverAccessors ==
    {"sequential_composition", "composition", "sequential_theoretical_mass", "theoretical_mass"}

NextResolve ==
    Construct(ResolverTexts) \/ AddFixed(MaxAddsResolve) \/ ApplyFixed \/ Call(ResolverAccessors)

SpecResolve == Init /\ [][NextResolve]_vars

NextMz == Construct(MzTexts) \/ AddFixed(MaxAddsResolve) \/ ApplyFixed \/ Call(Accessors)

SpecMz == Init /\ [][NextMz]_vars

NextRename == Construct(ResolverTexts) \/ AddFixed(MaxAddsResolve) \/ Rename

SpecRename == Init /\ [][NextRename]_vars

-----------------------------------------------------------------------------
(* Vocabulary of the properties. *)

\* Tags of the rules of `rules` that name residue aa, in rule order.
TagsTargeting(aa, rules) ==
    LET F[i \in 0..Len(rules)] ==
            IF i = 0 THEN <<>>
            ELSE IF aa \in Range(rules[i].targets)
                 THEN Append(F[i - 1], rules[i].modification_tag)
                 ELSE F[i - 1]
    IN F[Len(rules)]

SequenceTags(ps) == UNION {Range(ListOf(ps[i].tags)) : i \in 1..Len(ps)}

FixedTags(pr) == {r.modification_tag : r \in Range(ListOf(pr.fixed_modifications))}

\* Tags the per-position traversal reads: the tags of the fixed rules that name a
\* residue, of the termini and of the positions.
TraversalTags(ps, pr) ==
    {r.modification_tag : r \in {x \in Range(ListOf(pr.fixed_modifications)) : x.targets # <<>>}}
        \cup Range(ListOf(pr.n_term)) \cup Range(ListOf(pr.c_term)) \cup SequenceTags(ps)

AllTags(ps, pr) ==
    FixedTags(pr) \cup Range(ListOf(pr.n_term)) \cup Range(ListOf(pr.c_term))
        \cup SequenceTags(ps) \cup Range(pr.labile_modifications)
        \cup Range(pr.unlocalized_modifications)

ResiduesResolve(ps) == \A i \in 1..Len(ps) : ps[i].aa \in StdResidues

\* Every residue is a standard residue and every tag has a composition and a mass.
AllResolve(ps, pr) ==
    /\ ResiduesResolve(ps)
    /\ \A t \in AllTags(ps, pr) : TagCompositionStatus(t) = "ok" /\ TagMassStatus(t) = "ok"

PrevRules == ListOf(prev.properties.fixed_modifications)

-----------------------------------------------------------------------------
(* C1: apply_fixed_modifications() materializes the fixed rules in rule     *)
(* order: a position whose residue is a target of at least one rule ends    *)
(* with its former tag list followed by the tags of all rules targeting the *)
(* residue, in rule order; every other position keeps its tag list; the     *)
(* residue codes and their order are unchanged.                             *)
C1_ApplyMaterializesInRuleOrder ==
    lastop = "apply" =>
        /\ Len(parsed_sequence) = Len(prev.parsed_sequence)
        /\ \A i \in 1..Len(parsed_sequence) :
             LET before == prev.parsed_sequence[i]
                 after == parsed_sequence[i]
                 ruleTags == TagsTargeting(before.aa, PrevRules)
             IN /\ after.aa = before.aa
                /\ IF ruleTags # <<>>
                   THEN after.tags = Some(ListOf(before.tags) \o ruleTags)
                   ELSE after.tags = before.tags

-----------------------------------------------------------------------------
(* C2: each fixed rule is materialized at each of its targeted positions    *)
(* exactly once.  apply_fixed_modifications() leaves fixed_modifications    *)
(* empty or absent; an apply that immediately follows another changes       *)
(* neither parsed_sequence nor properties; at any time the tags of a        *)
(* position are its tags at construction followed by the tags of the rules  *)
(* naming its residue that had been added by the last apply, each once, and *)
(* the pending rules are exactly those added since.                         *)
C2_EachRuleMaterializedOnce ==
    pc = "ready" =>
        /\ lastop = "apply" => ~Truthy(properties.fixed_modifications)
        /\ (lastop = "apply" /\ prev.lastop = "apply") =>
              /\ parsed_sequence = prev.parsed_sequence
              /\ properties = prev.properties
        /\ Len(parsed_sequence) = Len(hist.orig)
        /\ \A i \in 1..Len(parsed_sequence) :
              ListOf(parsed_sequence[i].tags) =
                 ListOf(hist.orig[i].tags)
                    \o TagsTargeting(hist.orig[i].aa, SubSeq(hist.added, 1, hist.applied))
        /\ ListOf(properties.fixed_modifications) =
              SubSeq(hist.added, hist.applied + 1, Len(hist.added))

-----------------------------------------------------------------------------
(* C3: materialization does not change what the resolver computes: for a    *)
(* peptidoform whose residues and tags all resolve, after                   *)
(* apply_fixed_modifications() sequential_composition() and                 *)
(* sequential_theoretical_mass() succeed and return the per-position values *)
(* they returned before the call.                                           *)
C3_ResolverUnchangedByApply ==
    (/\ lastop = "apply"
     /\ AllResolve(prev.parsed_sequence, prev.properties)
     /\ sequential_composition(prev.parsed_sequence, prev.properties).ok
     /\ sequential_theoretical_mass(prev.parsed_sequence, prev.properties).ok)
    => /\ sequential_composition(parsed_sequence, properties).ok
       /\ sequential_theoretical_mass(parsed_sequence, properties).ok
       /\ sequential_composition(parsed_sequence, properties).val
            = sequential_composition(prev.parsed_sequence, prev.properties).val
       /\ sequential_theoretical_mass(parsed_sequence, properties).val
            = sequential_theoretical_mass(prev.parsed_sequence, prev.properties).val

-----------------------------------------------------------------------------
(* C5: a fixed rule is applied only where the residue is not already        *)
(* locally modified: a targeted position that has local tags before         *)
(* apply_fixed_modifications() keeps its tag list unchanged.                *)
C5_OnlyWhereNotLocallyModified ==
    lastop = "apply" =>
        \A i \in 1..Len(parsed_sequence) :
            Truthy(prev.parsed_sequence[i].tags) =>
                parsed_sequence[i].tags = prev.parsed_sequence[i].tags

\* C5 as amended: apply_fixed_modifications() adds a rule's tag to every
\* position whose residue the rule targets, whether or not the position has
\* local tags: the former tags stay in front, each targeting rule's tag is found
\* behind them, and nothing but tags of targeting rules is added.
C5_AppliedAlsoWhereLocallyModified ==
    lastop = "apply" =>
        \A i \in 1..Len(parsed_sequence) :
            LET old == ListOf(prev.parsed_sequence[i].tags)
                new == ListOf(parsed_sequence[i].tags)
            IN /\ Len(new) >= Len(old)
               /\ SubSeq(new, 1, Len(old)) = old
               /\ \A k \in 1..Len(PrevRules) :
                    prev.parsed_sequence[i].aa \in Range(PrevRules[k].targets) =>
                        \E j \in (Len(old) + 1)..Len(new) :
                            new[j] = PrevRules[k].modification_tag
               /\ \A j \in (Len(old) + 1)..Len(new) :
                    \E k \in 1..Len(PrevRules) :
                        /\ prev.parsed_sequence[i].aa \in Range(PrevRules[k].targets)
                        /\ new[j] = PrevRules[k].modification_tag

\* A position with a local tag whose residue a pending rule targets, after the call.
C5_Witness ==
    /\ lastop = "apply"
    /\ \E i \in 1..Len(parsed_sequence) :
         /\ Truthy(prev.parsed_sequence[i].tags)
         /\ TagsTargeting(prev.parsed_sequence[i].aa, PrevRules) # <<>>
         /\ Len(parsed_sequence[i].tags[1]) > Len(prev.parsed_sequence[i].tags[1])

-----------------------------------------------------------------------------
(* C7: constructing a Peptidoform from text that encodes isotopic labeling  *)
(* fails at construction with an error that is a subtype of the domain      *)
(* error category; no usable instance results.                              *)
C7_IsotopesRaiseDomainError ==
    (lastop = "init" /\ properties.isotopes # <<>>) =>
        pc = "failed" /\ IsPeptidoformException(raised)

\* C7 as amended: construction fails exactly for texts with isotopes, with the
\* built-in NotImplementedError, which is not a PeptidoformException; the failed
\* object is never operated on.
C7_IsotopesRaiseNotImplemented ==
    pc # "new" =>
        /\ (pc = "failed") <=> (properties.isotopes # <<>>)
        /\ pc = "failed" =>
              /\ raised = "NotImplementedError"
              /\ ~IsPeptidoformException(raised)
              /\ ExceptionBase(raised) = "RuntimeError"
              /\ lastop = "init"
              /\ ret = NoRet
        /\ pc = "ready" => properties.isotopes = <<>>

\* Construction from a text with isotopes has failed.
C7_Witness == pc = "failed" /\ properties.isotopes # <<>> /\ lastop = "init"

-----------------------------------------------------------------------------
(* C4: rename_modifications(mapping) is total and selective over all six    *)
(* tag locations: it completes, every tag whose label is a key of mapping   *)
(* is replaced by the tag with the mapped label (once: the new label is not *)
(* renamed again), every other tag is left as it is, and the positions,     *)
(* residues, tags per location and the rules' target sets are unchanged in  *)
(* number and order.                                                        *)
C4_RenameTotalSelective ==
    lastop = "rename" =>
        LET m == prev.arg[1]
            Renamed(l) == IF l \in m.keys THEN m.to[l] ELSE l
            RenamedList(q) == [i \in 1..Len(q) |-> Renamed(q[i])]
            old == prev.properties
            oldRules == ListOf(old.fixed_modifications)
            newRules == ListOf(properties.fixed_modifications)
        IN /\ raised = "none"
           /\ Len(parsed_sequence) = Len(prev.parsed_sequence)
           /\ \A i \in 1..Len(parsed_sequence) :
                /\ parsed_sequence[i].aa = prev.parsed_sequence[i].aa
                /\ ListOf(parsed_sequence[i].tags)
                     = RenamedList(ListOf(prev.parsed_sequence[i].tags))
           /\ ListOf(properties.n_term) = RenamedList(ListOf(old.n_term))
           /\ ListOf(properties.c_term) = RenamedList(ListOf(old.c_term))
           /\ properties.unlocalized_modifications = RenamedList(old.unlocalized_modifications)
           /\ properties.labile_modifications = RenamedList(old.labile_modifications)
           /\ Len(newRules) = Len(oldRules)
           /\ \A k \in 1..Len(newRules) :
                /\ newRules[k].targets = oldRules[k].targets
                /\ newRules[k].modification_tag = Renamed(oldRules[k].modification_tag)

-----------------------------------------------------------------------------
(* C6: resolution failures are classified and abort the whole computation:  *)
(* in sequential_composition(), composition(), sequential_theoretical_mass()*)
(* and theoretical_mass(), an unresolvable modification tag among those the *)
(* accessor reads makes the call fail with ModificationException, an        *)
(* unresolvable residue makes it fail with AmbiguousResidueException, no    *)
(* other error kind is raised, and no partial result is returned.           *)
C6_FailuresClassified ==
    ret.op \in ResolverAccessors =>
        LET Status(t) == IF ret.op \in {"sequential_composition", "composition"}
                         THEN TagCompositionStatus(t) ELSE TagMassStatus(t)
            read == IF ret.op \in {"composition", "theoretical_mass"}
                    THEN TraversalTags(parsed_sequence, properties)
                            \cup Range(properties.labile_modifications)
                            \cup Range(properties.unlocalized_modifications)
                    ELSE TraversalTags(parsed_sequence, properties)
            badTag == \E t \in read : Status(t) # "ok"
            badResidue == ~ResiduesResolve(parsed_sequence)
        IN /\ (badTag \/ badResidue) => ~ret.res.ok
           /\ ~ret.res.ok =>
                /\ ret.res.err \in {"ModificationException", "AmbiguousResidueException"}
                /\ ret.res.val = <<>>
                /\ ret.res.err = "ModificationException" => badTag
                /\ ret.res.err = "AmbiguousResidueException" => badResidue

-----------------------------------------------------------------------------
(* C8: additivity: for a peptidoform without unresolved tags or residues,   *)
(* composition() equals the element-wise sum of the entries of              *)
(* sequential_composition() plus the composition of every labile and every  *)
(* unlocalized tag, each once, in whatever order they are added.            *)
C8_Additivity ==
    (ret.op = "composition" /\ AllResolve(parsed_sequence, properties)) =>
        LET sc == sequential_composition(parsed_sequence, properties)
            Total(q) == [e \in Elements |->
                LET F[i \in 0..Len(q)] == IF i = 0 THEN 0 ELSE q[Len(q) + 1 - i][e] + F[i - 1]
                IN F[Len(q)]]
            TagComps(q) == [i \in 1..Len(q) |-> TagComposition(q[i])]
        IN /\ ret.res.ok
           /\ sc.ok
           /\ ret.res.val =
                AddComp(Total(TagComps(properties.unlocalized_modifications)),
                        AddComp(Total(TagComps(properties.labile_modifications)),
                                Total(sc.val)))

-----------------------------------------------------------------------------
(* C9: theoretical_mz() returns absence, not an error, exactly when         *)
(* charge_state is absent or its charge is zero, and otherwise is           *)
(* (theoretical_mass + proton_mass * charge) / charge for the signed        *)
(* charge (theoretical_mass's own failure, if any, is the outcome);         *)
(* precursor_charge is absent only without a charge_state and is 0 for a    *)
(* charge of zero.                                                          *)
C9_MzAbsentIffNoCharge ==
    /\ ret.op = "theoretical_mz" =>
         LET z == properties.charge_state
             m == theoretical_mass(parsed_sequence, properties)
         IN /\ (ret.res.ok /\ ret.res.val = None) <=> (z = None \/ z = Some(0))
            /\ (z # None /\ z # Some(0)) =>
                 IF m.ok
                 THEN /\ ret.res.ok
                      /\ ret.res.val = Some([num |-> m.val + ProtonMass * z[1], den |-> z[1]])
                      /\ ret.res.val[1].den # 0
                 ELSE ret.res = m
    /\ ret.op = "precursor_charge" =>
         /\ ret.res.ok
         /\ (ret.res.val = None) <=> (properties.charge_state = None)
         /\ properties.charge_state = Some(0) => ret.res.val = Some(0)
         /\ ret.res.val = properties.charge_state

\* theoretical_mz() was called on a peptidoform whose charge is zero and whose
\* mass does not resolve: it returned absence.
C9_Witness ==
    /\ ret.op = "theoretical_mz"
    /\ properties.charge_state = Some(0)
    /\ ~theoretical_mass(parsed_sequence, properties).ok
    /\ ret.res.ok
    /\ ret.res.val = None

-----------------------------------------------------------------------------
(* C10: the mass path mirrors the composition path: in every state          *)
(* sequential_theoretical_mass() and sequential_composition() either both   *)
(* succeed with len(sequence)+2 entries or both fail with the same error    *)
(* kind at the same point of the traversal.                                 *)
SamePoint(c, m) ==
    /\ c.err = m.err
    /\ c.stage = m.stage
    /\ c.pos = m.pos
    /\ c.idx = m.idx

PathsAgree(c, m, n) ==
    IF c.ok THEN m.ok /\ Len(c.val) = n + 2 /\ Len(m.val) = n + 2
    ELSE ~m.ok /\ SamePoint(c, m)

C10_MassMirrorsComposition ==
    /\ ret.op = "sequential_composition" =>
         PathsAgree(ret.res, sequential_theoretical_mass(parsed_sequence, properties),
                    Len(parsed_sequence))
    /\ ret.op = "sequential_theoretical_mass" =>
         PathsAgree(sequential_composition(parsed_sequence, properties), ret.res,
                    Len(parsed_sequence))

\* Every tag the traversal reads has a composition exactly when it has a mass.
UniformTags(ps, pr) ==
    \A t \in TraversalTags(ps, pr) : TagCompositionStatus(t) = TagMassStatus(t)

\* Where the traversal stops first: the fixed rules' tags, then the n_term tags,
\* then the positions in order (residue, then local tags), then the c_term tags.
FirstFailure(ps, pr) ==
    LET Bad(t) == TagMassStatus(t) # "ok"
        BadIn(q) == \E t \in Range(q) : Bad(t)
        BadPos(i) == ps[i].aa \notin StdResidues \/ BadIn(ListOf(ps[i].tags))
    IN IF IsNone(pr.fixed_modifications) THEN [stage |-> "fixed", pos |-> 0]
       ELSE IF \E r \in Range(pr.fixed_modifications[1]) :
                    r.targets # <<>> /\ Bad(r.modification_tag)
            THEN [stage |-> "fixed", pos |-> 0]
       ELSE IF BadIn(ListOf(pr.n_term)) THEN [stage |-> "n_term", pos |-> 0]
       ELSE IF \E i \in 1..Len(ps) : BadPos(i)
            THEN LET p == CHOOSE i \in 1..Len(ps) :
                              BadPos(i) /\ \A j \in 1..(i - 1) : ~BadPos(j)
                 IN [stage |-> IF ps[p].aa \notin StdResidues THEN "residue" ELSE "position",
                     pos |-> p]
       ELSE IF BadIn(ListOf(pr.c_term)) THEN [stage |-> "c_term", pos |-> 0]
       ELSE [stage |-> "none", pos |-> 0]

\* C10 as amended: when every tag the traversal reads has a composition exactly
\* when it has a mass, the two paths both succeed with len(sequence)+2 entries or
\* both fail with the same error kind at the same point, which is the first
\* failing point in the order: fixed rules' tags, n_term tags, positions in
\* order with the residue before the local tags, c_term tags.
C10_MassMirrorsCompositionUniformTags ==
    (ret.op \in {"sequential_composition", "sequential_theoretical_mass"}
        /\ UniformTags(parsed_sequence, properties)) =>
        /\ C10_MassMirrorsComposition
        /\ ret.res.stage = FirstFailure(parsed_sequence, properties).stage
        /\ ret.res.pos = FirstFailure(parsed_sequence, properties).pos

\* sequential_theoretical_mass() failed at the residue of position 2, which
\* also carries an unresolvable local tag, after position 1 resolved.
C10_Witness ==
    /\ ret.op = "sequential_theoretical_mass"
    /\ UniformTags(parsed_sequence, properties)
    /\ ~ret.res.ok
    /\ ret.res.err = "AmbiguousResidueException"
    /\ ret.res.pos = 2
    /\ Truthy(parsed_sequence[2].tags)
    /\ TagMassStatus(parsed_sequence[2].tags[1][1]) # "ok"
    /\ sequential_composition(parsed_sequence, properties).err = "AmbiguousResidueException"

====
